---- MODULE Spec2Model ----
(***************************************************************************)
(* A model of container/utils.py: the path utilities (create_path,         *)
(* assert_initialized), the image lookup (get_latest_image_for), the two   *)
(* plugin loaders (load_engine, load_shipit_engine) and the role           *)
(* scaffolder (create_role_from_templates).                                *)
(*                                                                         *)
(* Conventions.  A Python string is a sequence of tokens (a token is a     *)
(* run of characters the code never looks inside), so that replace,        *)
(* startswith, endswith, split and %-formatting are computed on the text.  *)
(* A path is the sequence of its segments, each segment a string; the      *)
(* empty path is the filesystem root.  An exception is a record            *)
(* [type, msg]; NoExc stands for "no exception was raised".                *)
(***************************************************************************)
EXTENDS Integers, Sequences, FiniteSets, TLC

VARIABLES
    fs,        \* the filesystem: path -> node [type, content]
    now,       \* the wall clock read by datetime.today(), in half seconds
    modules,   \* the importable modules: module name -> set of attribute names
    images,    \* the image descriptors the container runtime's client returns
    history,   \* contents tasks/main.yml had at the start of a scaffolding call that returned
    last       \* the last call: [op, args, exc, value]

vars == <<fs, now, modules, images, history, last>>

----------------------------------------------------------------------------
(* Bounds of the model.                                                     *)

MaxClock == 3
MaxImages == 2
MaxTags == 2

----------------------------------------------------------------------------
(* Python values.                                                           *)

None == <<"None">>

\* None where the code expects a path (a path is a sequence of strings).
NonePath == <<None>>

NoExc == [type |-> "NoExc", msg |-> <<>>]

Raise(type, msg) == [type |-> type, msg |-> msg]

Raised(exc) == exc.type # "NoExc"

\* The subclasses of OSError that os.makedirs, open and os.rename raise here,
\* told apart by errno.
OSError(errno) == Raise("OSError", <<errno>>)

Call(op, args, exc, value) == [op |-> op, args |-> args, exc |-> exc, value |-> value]

NoCall == Call("none", <<>>, NoExc, None)

----------------------------------------------------------------------------
(* The filesystem, as os and os.path see it.                                *)

Absent == [type |-> "absent", content |-> <<>>]
Dir == [type |-> "dir", content |-> <<>>]
\* A directory the process may search but not write to.
RoDir == [type |-> "rodir", content |-> <<>>]
File(content) == [type |-> "file", content |-> content]

Front(s) == SubSeq(s, 1, Len(s) - 1)

Last(s) == s[Len(s)]

Node(f, p) == IF p = <<>> THEN Dir ELSE IF p \in DOMAIN f THEN f[p] ELSE Absent

RECURSIVE Exists(_, _)
Exists(f, p) ==
    IF p = <<>> THEN TRUE
    ELSE /\ Node(f, p).type # "absent"
         /\ Exists(f, Front(p))
         /\ Node(f, Front(p)).type \in {"dir", "rodir"}

IsDir(f, p) == Exists(f, p) /\ Node(f, p).type \in {"dir", "rodir"}

IsFile(f, p) == Exists(f, p) /\ Node(f, p).type = "file"

Join(p, name) == Append(p, name)

RECURSIVE Normpath(_)
Normpath(p) ==
    IF p = <<>> THEN <<>>
    ELSE LET head == Normpath(Front(p))
             seg == Last(p)
         IN  IF seg = <<>> \/ seg = <<".">> THEN head
             ELSE IF seg = <<"..">> THEN (IF head = <<>> THEN <<>> ELSE Front(head))
             ELSE Append(head, seg)

\* os.mkdir(p): the result is [fs, exc].
Mkdir(f, p) ==
    IF p = <<>> \/ Exists(f, p) THEN [fs |-> f, exc |-> OSError("EEXIST")]
    ELSE IF ~Exists(f, Front(p)) THEN
        [fs |-> f, exc |-> OSError(IF \E i \in 1..(Len(p) - 1) : IsFile(f, SubSeq(p, 1, i))
                                   THEN "ENOTDIR" ELSE "ENOENT")]
    ELSE IF Node(f, Front(p)).type = "file" THEN [fs |-> f, exc |-> OSError("ENOTDIR")]
    ELSE IF Node(f, Front(p)).type = "rodir" THEN [fs |-> f, exc |-> OSError("EACCES")]
    ELSE [fs |-> [f EXCEPT ![p] = Dir], exc |-> NoExc]

\* os.makedirs(p): creates the missing ancestors, then the leaf.
RECURSIVE Makedirs(_, _)
Makedirs(f, p) ==
    IF p = NonePath THEN [fs |-> f, exc |-> Raise("TypeError", <<"expected str, not NoneType">>)]
    ELSE IF p = <<>> THEN Mkdir(f, p)
    ELSE LET head == Front(p)
             up == IF head # <<>> /\ ~Exists(f, head) THEN Makedirs(f, head)
                   ELSE [fs |-> f, exc |-> NoExc]
         IN  IF Raised(up.exc) /\ up.exc # OSError("EEXIST") THEN up
             ELSE Mkdir(up.fs, p)

----------------------------------------------------------------------------
(* create_path                                                              *)

Str(exc) == exc.msg

\* '%s' % path
PathStr(p) == IF p = NonePath THEN <<None>> ELSE p

create_path(f, path) ==
    LET made == Makedirs(f, path)
    IN  IF made.exc.type = "OSError" THEN [fs |-> made.fs, exc |-> NoExc]
        ELSE IF Raised(made.exc) THEN
            [fs |-> made.fs,
             exc |-> Raise("AnsibleContainerException",
                           <<"Error: failed to create ", PathStr(path), " - ", Str(made.exc)>>)]
        ELSE made

----------------------------------------------------------------------------
(* assert_initialized                                                       *)

\* assert_initialized without the last isfile test.
assert_initialized_no_isfile(f, base_path) ==
    LET ansible_dir == Normpath(Join(base_path, <<"ansible">>))
        container_file == Join(ansible_dir, <<"container", ".yml">>)
        ansible_file == Join(ansible_dir, <<"main", ".yml">>)
    IN  IF \/ ~Exists(f, ansible_dir) \/ ~IsDir(f, ansible_dir)
           \/ ~Exists(f, container_file) \/ ~IsFile(f, container_file)
           \/ ~Exists(f, ansible_file)
        THEN Raise("AnsibleContainerNotInitializedException", <<>>)
        ELSE NoExc

assert_initialized(f, base_path) ==
    LET ansible_dir == Normpath(Join(base_path, <<"ansible">>))
        container_file == Join(ansible_dir, <<"container", ".yml">>)
        ansible_file == Join(ansible_dir, <<"main", ".yml">>)
    IN  IF \/ ~Exists(f, ansible_dir) \/ ~IsDir(f, ansible_dir)
           \/ ~Exists(f, container_file) \/ ~IsFile(f, container_file)
           \/ ~Exists(f, ansible_file) \/ ~IsFile(f, ansible_file)
        THEN Raise("AnsibleContainerNotInitializedException", <<>>)
        ELSE NoExc

----------------------------------------------------------------------------
(* The project tree create_path and assert_initialized are run against.     *)

ProjectRoot == << <<"proj">> >>

AnsibleDir == Join(ProjectRoot, <<"ansible">>)

ContainerFile == Join(AnsibleDir, <<"container", ".yml">>)

MainFile == Join(AnsibleDir, <<"main", ".yml">>)

ProjectPaths == {ProjectRoot, AnsibleDir, ContainerFile, MainFile}

\* The ways a caller may spell the project directory.
BasePaths == {ProjectRoot, Join(ProjectRoot, <<".">>), Join(ProjectRoot, <<>>),
              Join(AnsibleDir, <<"..">>)}

Children(f, p) == {q \in DOMAIN f : q # <<>> /\ Front(q) = p /\ Node(f, q).type # "absent"}

CreatePath(path) ==
    LET r == create_path(fs, path)
    IN  /\ fs' = r.fs
        /\ last' = Call("create_path", <<path>>, r.exc, None)
        /\ UNCHANGED <<now, modules, images, history>>

AssertInitialized(base_path) ==
    /\ last' = Call("assert_initialized", <<base_path>>, assert_initialized(fs, base_path), None)
    /\ UNCHANGED <<fs, now, modules, images, history>>

\* Another program writes a regular file.
EnvWrite(p) ==
    /\ Node(fs, Front(p)).type = "dir" /\ Exists(fs, Front(p))
    /\ Node(fs, p).type = "absent"
    /\ fs' = [fs EXCEPT ![p] = File(<<"user">>)]
    /\ last' = NoCall
    /\ UNCHANGED <<now, modules, images, history>>

\* Another program removes a file or an empty directory.
EnvRemove(p) ==
    /\ Exists(fs, p) /\ Children(fs, p) = {}
    /\ Node(fs, Front(p)).type = "dir"
    /\ fs' = [fs EXCEPT ![p] = Absent]
    /\ last' = NoCall
    /\ UNCHANGED <<now, modules, images, history>>

\* Another program takes away or gives back write permission on a directory.
EnvChmod(p) ==
    /\ IsDir(fs, p)
    /\ fs' = [fs EXCEPT ![p] = IF fs[p].type = "dir" THEN RoDir ELSE Dir]
    /\ last' = NoCall
    /\ UNCHANGED <<now, modules, images, history>>

InitPath ==
    /\ fs = [p \in ProjectPaths |-> Absent]
    /\ now = 0
    /\ modules = <<>>
    /\ images = <<>>
    /\ history = {}
    /\ last = NoCall

NextPath ==
    \/ \E path \in ProjectPaths \cup {NonePath} : CreatePath(path)
    \/ \E base_path \in BasePaths : AssertInitialized(base_path)
    \/ \E p \in ProjectPaths : EnvWrite(p)
    \/ \E p \in ProjectPaths : EnvRemove(p)
    \/ \E p \in ProjectPaths : EnvChmod(p)

SpecPath == InitPath /\ [][NextPath]_vars

----------------------------------------------------------------------------
(* jinja_render_to_temp                                                     *)

\* j2_tmpl.render(dict(temp_dir=temp_dir, **context)): the text depends on the
\* template and on the context, and on nothing else.
Render(template_file, context) ==
    template_file \o <<context.role_name, context.project_name, context.role_description>>

\* open(path, 'wb').write(data): creates the file or replaces its content; the
\* error of a failed open is not caught by any caller in this module.
WriteFile(f, path, data) ==
    IF ~Exists(f, Front(path)) THEN
        [fs |-> f, exc |-> OSError(IF \E i \in 1..(Len(path) - 1) : IsFile(f, SubSeq(path, 1, i))
                                   THEN "ENOTDIR" ELSE "ENOENT")]
    ELSE IF Node(f, Front(path)).type = "file" THEN [fs |-> f, exc |-> OSError("ENOTDIR")]
    ELSE IF IsDir(f, path) THEN [fs |-> f, exc |-> OSError("EISDIR")]
    ELSE IF ~Exists(f, path) /\ Node(f, Front(path)).type = "rodir" THEN
        [fs |-> f, exc |-> OSError("EACCES")]
    ELSE [fs |-> [f EXCEPT ![path] = File(data)], exc |-> NoExc]

jinja_render_to_temp(f, template_file, temp_dir, dest_file, context) ==
    WriteFile(f, Join(temp_dir, dest_file), Render(template_file, context))

----------------------------------------------------------------------------
(* create_role_from_templates                                               *)

\* The keys of role_paths with their templates.
role_paths ==
    [base |-> << <<"README", ".j2">>, <<"travis", ".j2", ".yml">> >>,
     defaults |-> << <<"defaults", ".j2", ".yml">> >>,
     meta |-> << <<"meta", ".j2", ".yml">> >>,
     test |-> << <<"test", ".j2", ".yml">>, <<"travis", ".j2", ".yml">> >>,
     tasks |-> << >>]

\* role_paths.items() yields the keys in an order the language does not fix
\* (a dict of the Python 2 the module is written for): the order they are
\* written in, and the opposite one, so that each key comes before and after
\* each other key.
ItemOrders ==
    { <<"base", "defaults", "meta", "test", "tasks">>,
      <<"tasks", "test", "meta", "defaults", "base">> }

\* s.replace(old, ''), for a one-token old.
Remove(s, old) == SelectSeq(s, LAMBDA tok : tok # old)

\* s.startswith(prefix), for a one-token prefix.
StartsWith(s, prefix) == Len(s) > 0 /\ s[1] = prefix

\* TargetName without the hidden-file prefix.
TargetName_not_hidden(template) ==
    LET stripped == Remove(template, ".j2")
    IN  IF StartsWith(stripped, "defaults") \/ StartsWith(stripped, "meta")
        THEN <<"main", ".yml">>
        ELSE stripped

TargetName(template) ==
    LET stripped == Remove(template, ".j2")
        hidden == IF StartsWith(stripped, "travis") THEN <<".">> \o stripped ELSE stripped
    IN  IF StartsWith(hidden, "defaults") \/ StartsWith(hidden, "meta")
        THEN <<"main", ".yml">>
        ELSE hidden

TargetDir(role_path, p) == IF p # "base" THEN Join(role_path, <<p>>) ELSE role_path

\* RenderTemplate without the os.path.exists test.
RenderTemplate_always(f, target_dir, template, context) ==
    jinja_render_to_temp(f, <<"role/">> \o template, target_dir, TargetName(template), context)

\* The body of the inner loop, for one template.
RenderTemplate(f, target_dir, template, context) ==
    LET target_name == TargetName(template)
    IN  IF ~Exists(f, Join(target_dir, target_name))
        THEN jinja_render_to_temp(f, <<"role/">> \o template, target_dir, target_name, context)
        ELSE [fs |-> f, exc |-> NoExc]

\* The inner loop: an exception ends it.
RECURSIVE RenderTemplates(_, _, _, _)
RenderTemplates(f, target_dir, templates, context) ==
    IF templates = <<>> THEN [fs |-> f, exc |-> NoExc]
    ELSE LET r == RenderTemplate(f, target_dir, Head(templates), context)
         IN  IF Raised(r.exc) THEN r
             ELSE RenderTemplates(r.fs, target_dir, Tail(templates), context)

\* The outer loop over role_paths.items(), in the order `items`.
RECURSIVE Populate(_, _, _, _)
Populate(f, role_path, items, context) ==
    IF items = <<>> THEN [fs |-> f, exc |-> NoExc]
    ELSE LET p == Head(items)
             target_dir == TargetDir(role_path, p)
             made == IF p # "base" THEN create_path(f, target_dir) ELSE [fs |-> f, exc |-> NoExc]
             r == IF Raised(made.exc) THEN made
                  ELSE RenderTemplates(made.fs, target_dir, role_paths[p], context)
         IN  IF Raised(r.exc) THEN r
             ELSE Populate(r.fs, role_path, Tail(items), context)

\* datetime.strftime('%y%m%d%H%M%S'): the stamp of a time has whole seconds only.
Strftime(t) == <<ToString(t \div 2)>>

\* os.rename(src, dst) of a regular file on a POSIX system: an existing regular
\* file dst is replaced.
Rename(f, src, dst) ==
    IF ~Exists(f, src) \/ ~Exists(f, Front(dst)) THEN [fs |-> f, exc |-> OSError("ENOENT")]
    ELSE IF Node(f, Front(src)).type = "rodir" \/ Node(f, Front(dst)).type = "rodir"
        THEN [fs |-> f, exc |-> OSError("EACCES")]
    ELSE IF IsDir(f, dst) THEN [fs |-> f, exc |-> OSError("EISDIR")]
    ELSE [fs |-> [f EXCEPT ![dst] = f[src], ![src] = Absent], exc |-> NoExc]

NewFileName(today) == <<"main_">> \o Strftime(today) \o <<".yml">>

\* BackupTasks copying the file instead of renaming it.
BackupTasks_copy(f, role_path, today) ==
    LET new_tasks_file == Join(Join(role_path, <<"tasks">>), NewFileName(today))
        tasks_file == Join(Join(role_path, <<"tasks">>), <<"main", ".yml">>)
    IN  IF Exists(f, tasks_file)
        THEN [fs |-> [f EXCEPT ![new_tasks_file] = f[tasks_file]], exc |-> NoExc]
        ELSE [fs |-> f, exc |-> NoExc]

\* The backup of tasks/main.yml that ends the function.
BackupTasks(f, role_path, today) ==
    LET new_file_name == NewFileName(today)
        new_tasks_file == Join(Join(role_path, <<"tasks">>), new_file_name)
        tasks_file == Join(Join(role_path, <<"tasks">>), <<"main", ".yml">>)
    IN  IF Exists(f, tasks_file) THEN Rename(f, tasks_file, new_tasks_file)
        ELSE [fs |-> f, exc |-> NoExc]

create_role_from_templates(f, role_name, role_path, project_name, description, items, today) ==
    LET context == [role_name |-> role_name, project_name |-> project_name,
                    role_description |-> description]
        made == create_path(f, role_path)
        filled == IF Raised(made.exc) THEN made
                  ELSE Populate(made.fs, role_path, items, context)
    IN  IF Raised(filled.exc) THEN filled
        ELSE BackupTasks(filled.fs, role_path, today)

----------------------------------------------------------------------------
(* The role directory the scaffolder is run against, its caller and clock.  *)

RoleRoot == << <<"role">> >>

SubDirs == {"defaults", "meta", "test", "tasks"}

TasksDir == Join(RoleRoot, <<"tasks">>)

TasksMain == Join(TasksDir, <<"main", ".yml">>)

Times == 0..MaxClock

Backups == {Join(TasksDir, NewFileName(t)) : t \in Times}

\* The files the templates are rendered to.
Targets ==
    UNION { {Join(TargetDir(RoleRoot, p), TargetName(role_paths[p][i])) :
                i \in 1..Len(role_paths[p])} : p \in DOMAIN role_paths }

RolePaths ==
    {RoleRoot} \cup {Join(RoleRoot, <<d>>) : d \in SubDirs} \cup Targets
    \cup {Join(Join(RoleRoot, <<"test">>), <<"main", ".yml">>)}
    \cup {TasksMain} \cup Backups

RoleNames == {"web", "db"}

TaskTexts == {<<"tasks v1">>, <<"tasks v2">>}

\* The parents of the paths in S, up to the root.
RECURSIVE Ancestors(_)
Ancestors(p) == IF Len(p) <= 1 THEN {} ELSE {Front(p)} \cup Ancestors(Front(p))

\* A role directory holding the files `present`, written by the user.
UserTree(present) ==
    [p \in RolePaths |->
        IF p \in present THEN File(<<"user">>)
        ELSE IF \E q \in present : p \in Ancestors(q) THEN Dir
        ELSE Absent]

\* The role directories a call may find: none, an empty one, one holding one or
\* all of the target files already, and one where test is a regular file.
UserTrees ==
    {UserTree({}), [UserTree({}) EXCEPT ![RoleRoot] = Dir], UserTree(Targets),
     UserTree({Join(RoleRoot, <<"test">>)})}
    \cup {UserTree({t}) : t \in Targets}

CreateRoleFromTemplates(role_name, role_path, items) ==
    LET r == create_role_from_templates(fs, role_name, role_path, "proj", "a role", items, now)
    IN  /\ fs' = r.fs
        /\ history' = IF Exists(fs, TasksMain) /\ role_path = RoleRoot /\ ~Raised(r.exc)
                      THEN history \cup {Node(fs, TasksMain).content}
                      ELSE history
        /\ last' = Call("create_role_from_templates", <<role_name, role_path>>, r.exc, None)
        /\ UNCHANGED <<now, modules, images>>

\* The caller writes the tasks it generated to tasks/main.yml.
CallerWritesTasks(text) ==
    /\ IsDir(fs, TasksDir)
    /\ ~IsDir(fs, TasksMain)
    /\ fs' = [fs EXCEPT ![TasksMain] = File(text)]
    /\ last' = NoCall
    /\ UNCHANGED <<now, modules, images, history>>

\* Time passes: half a second.  A call takes less than that, so several calls
\* may read the same time.
Tick ==
    /\ now < MaxClock
    /\ now' = now + 1
    /\ last' = NoCall
    /\ UNCHANGED <<fs, modules, images, history>>

Init ==
    /\ fs \in UserTrees
    /\ now = 0
    /\ modules = <<>>
    /\ images = <<>>
    /\ history = {}
    /\ last = NoCall

Next ==
    \/ \E role_name \in RoleNames, role_path \in {RoleRoot, NonePath}, items \in ItemOrders :
          CreateRoleFromTemplates(role_name, role_path, items)
    \/ \E text \in TaskTexts : CallerWritesTasks(text)
    \/ Tick

Spec == Init /\ [][Next]_vars

----------------------------------------------------------------------------
(* get_latest_image_for                                                     *)

\* s.endswith(suffix)
EndsWith(s, suffix) ==
    Len(s) >= Len(suffix) /\ SubSeq(s, Len(s) - Len(suffix) + 1, Len(s)) = suffix

\* s.split(sep), for a one-token sep: the pieces between the separators.
RECURSIVE Split(_, _)
Split(s, sep) ==
    IF \A i \in 1..Len(s) : s[i] # sep THEN <<s>>
    ELSE LET i == CHOOSE j \in 1..Len(s) : s[j] = sep /\ \A k \in 1..(j - 1) : s[k] # sep
         IN  <<SubSeq(s, 1, i - 1)>> \o Split(SubSeq(s, i + 1, Len(s)), sep)

\* x in xs, for a list xs.
InList(x, xs) == \E i \in 1..Len(xs) : xs[i] = x

\* get_latest_image_for that takes the first descriptor tagged latest, however
\* many there are.
get_latest_image_for_first(project_name, host, image_data) ==
    LET latest == <<project_name, "-", host, ":", "latest">>
        found == SelectSeq(image_data, LAMBDA datum : InList(latest, datum.RepoTags))
        stamps == IF found = <<>> THEN <<>>
                  ELSE SelectSeq(found[1].RepoTags, LAMBDA tag : ~EndsWith(tag, <<":", "latest">>))
    IN  IF stamps = <<>> THEN [exc |-> NoExc, value |-> <<None, None>>]
        ELSE [exc |-> NoExc, value |-> <<found[1].Id, Last(Split(stamps[1], ":"))>>]

\* get_latest_image_for that returns the first tag's last part, latest or not.
get_latest_image_for_any_tag(project_name, host, image_data) ==
    LET latest == <<project_name, "-", host, ":", "latest">>
        found == SelectSeq(image_data, LAMBDA datum : InList(latest, datum.RepoTags))
    IN  IF Len(found) # 1 THEN [exc |-> NoExc, value |-> <<None, None>>]
        ELSE [exc |-> NoExc, value |-> <<found[1].Id, Last(Split(found[1].RepoTags[1], ":"))>>]

\* image_data is what client.images('<project_name>-<host>') returned.  The
\* result is [exc, value]: the ValueError of the unpacking and the IndexError
\* of [0] are caught and give (None, None).
get_latest_image_for(project_name, host, image_data) ==
    LET latest == <<project_name, "-", host, ":", "latest">>
        found == SelectSeq(image_data, LAMBDA datum : InList(latest, datum.RepoTags))
    IN  IF Len(found) # 1 THEN [exc |-> NoExc, value |-> <<None, None>>]
        ELSE LET latest_image_data == found[1]
                 stamps == SelectSeq(latest_image_data.RepoTags,
                                     LAMBDA tag : ~EndsWith(tag, <<":", "latest">>))
             IN  IF stamps = <<>> THEN [exc |-> NoExc, value |-> <<None, None>>]
                 ELSE [exc |-> NoExc,
                       value |-> <<latest_image_data.Id, Last(Split(stamps[1], ":"))>>]

\* The tags an image of the runtime may carry.
TagPool ==
    { <<"proj", "-", "host", ":", "latest">>,
      <<"proj", "-", "host", ":", "abc123">>,
      <<"registry", ":", "5000/", "proj", "-", "host", ":", "def456">>,
      <<"proj", "-", "hostess", ":", "latest">> }

SeqsUpTo(S, n) == UNION {[1..k -> S] : k \in 0..n}

\* The tags of one image: up to MaxTags tags, none listed twice.
TagLists ==
    {tags \in SeqsUpTo(TagPool, MaxTags) :
        \A i, j \in 1..Len(tags) : tags[i] = tags[j] => i = j}

\* The lists of descriptors the client may return: up to MaxImages images, the
\* i-th with the id sha<i>.
ImageLists ==
    { [i \in 1..Len(tags) |-> [Id |-> <<"sha", ToString(i)>>, RepoTags |-> tags[i]]] :
        tags \in SeqsUpTo(TagLists, MaxImages) }

\* client.images(name): the descriptors of the images of repository name.
ClientImages(name) == images

GetLatestImageFor(project_name, host) ==
    LET r == get_latest_image_for(project_name, host, ClientImages(<<project_name, "-", host>>))
    IN  /\ last' = Call("get_latest_image_for", <<project_name, host>>, r.exc, r.value)
        /\ UNCHANGED <<fs, now, modules, images, history>>

InitImage ==
    /\ fs = <<>>
    /\ now = 0
    /\ modules = <<>>
    /\ images \in ImageLists
    /\ history = {}
    /\ last = NoCall

NextImage == GetLatestImageFor("proj", "host")

SpecImage == InitImage /\ [][NextImage]_vars

----------------------------------------------------------------------------
(* load_engine and load_shipit_engine                                       *)

\* importlib.import_module(name), given the installed modules: [exc, module].
import_module(mods, name) ==
    IF name \in DOMAIN mods THEN [exc |-> NoExc, module |-> name]
    ELSE [exc |-> Raise("ImportError", <<"No module named ">> \o name), module |-> None]

\* getattr(module, attr): [exc, value]; the value is the class module.attr.
getattr(mods, module, attr) ==
    IF attr \in mods[module] THEN [exc |-> NoExc, value |-> Append(module, attr)]
    ELSE [exc |-> Raise("AttributeError",
                        <<"'module' object has no attribute '", attr, "'">>),
          value |-> None]

\* cls(*args, **kwargs): the new object.
New(cls, args, kwargs) == [cls |-> cls, args |-> args, kwargs |-> kwargs]

\* str.lower(), on the letters of the model.
LowerChar(c) ==
    CASE c = "M" -> "m"
      [] c = "P" -> "p"
      [] OTHER -> c

Lower(s) == [i \in 1..Len(s) |-> LowerChar(s[i])]

\* s.rfind(c) + 1
RFind1(s, c) ==
    LET at == {i \in 1..Len(s) : s[i] = c}
    IN  IF at = {} THEN 0 ELSE CHOOSE i \in at : \A j \in at : j <= i

\* os.path.basename(p), for a path given as its characters
Basename(p) == SubSeq(p, RFind1(p, "/") + 1, Len(p))

\* load_engine that passes the project name as it is spelled.
load_engine_not_lowered(mods, engine_name, base_path, kwargs) ==
    LET mod == import_module(mods, <<"container.", engine_name, ".engine">>)
        cls == getattr(mods, mod.module, "Engine")
    IN  IF Raised(mod.exc) THEN [exc |-> mod.exc, value |-> None, made |-> <<>>]
        ELSE IF Raised(cls.exc) THEN [exc |-> cls.exc, value |-> None, made |-> <<>>]
        ELSE LET engine == New(cls.value, <<base_path, Basename(base_path), kwargs>>, {})
             IN  [exc |-> NoExc, value |-> engine, made |-> <<engine>>]

\* The result is [exc, value, made]: made lists the objects the call constructed.
load_engine(mods, engine_name, base_path, kwargs) ==
    LET mod == import_module(mods, <<"container.", engine_name, ".engine">>)
        project_name == Lower(Basename(base_path))
        cls == getattr(mods, mod.module, "Engine")
    IN  IF Raised(mod.exc) THEN [exc |-> mod.exc, value |-> None, made |-> <<>>]
        ELSE IF Raised(cls.exc) THEN [exc |-> cls.exc, value |-> None, made |-> <<>>]
        ELSE LET engine == New(cls.value, <<base_path, project_name, kwargs>>, {})
             IN  [exc |-> NoExc, value |-> engine, made |-> <<engine>>]

\* load_shipit_engine that reports a missing class with the message of a
\* missing module.
load_shipit_engine_one_message(mods, engine_class, kwargs) ==
    LET engine_module == import_module(mods, <<"container.shipit.", engine_class, ".engine">>)
        engine_cls == getattr(mods, engine_module.module, "ShipItEngine")
    IN  IF Raised(engine_module.exc) THEN
            [exc |-> Raise("ImportError", <<"No shipit module for ", engine_class, " found - ">>
                                          \o Str(engine_module.exc)),
             value |-> None, made |-> <<>>]
        ELSE IF Raised(engine_cls.exc) THEN
            [exc |-> Raise("ImportError", <<"No shipit module for ", engine_class, " found - ">>
                                          \o Str(engine_cls.exc)),
             value |-> None, made |-> <<>>]
        ELSE LET engine == New(engine_cls.value, <<>>, kwargs)
             IN  [exc |-> NoExc, value |-> engine, made |-> <<engine>>]

load_shipit_engine(mods, engine_class, kwargs) ==
    LET engine_module == import_module(mods, <<"container.shipit.", engine_class, ".engine">>)
        engine_cls == getattr(mods, engine_module.module, "ShipItEngine")
    IN  IF Raised(engine_module.exc) THEN
            [exc |-> Raise("ImportError", <<"No shipit module for ", engine_class, " found - ">>
                                          \o Str(engine_module.exc)),
             value |-> None, made |-> <<>>]
        ELSE IF Raised(engine_cls.exc) THEN
            [exc |-> Raise("ImportError", <<"Error getting ShipItEngine for ", engine_class, " - ">>
                                          \o Str(engine_cls.exc)),
             value |-> None, made |-> <<>>]
        ELSE LET engine == New(engine_cls.value, <<>>, kwargs)
             IN  [exc |-> NoExc, value |-> engine, made |-> <<engine>>]

\* The modules an installation may hold, and what each may define.
ModuleNames ==
    { <<"container.", "docker", ".engine">>,
      <<"container.shipit.", "kubernetes", ".engine">>,
      <<"container.shipit.", "openshift", ".engine">> }

Installations ==
    UNION {[S -> {{}, {"Engine"}, {"ShipItEngine"}}] : S \in SUBSET ModuleNames}

EngineNames == {"docker", "kube"}

ShipitNames == {"kubernetes", "openshift", "nonexistent"}

\* base_path as its characters: with and without directories, capitals and a
\* trailing separator, and the default ''.
EngineBasePaths ==
    { <<>>, <<"M">>, <<"/", "a", "/", "M", "p">>, <<"/", "a", "/", "m", "P", "/">>,
      <<"/", "P", "/", "a">>, <<"a", "/", "m">>, <<"/">>, <<"/", "M", "a", "/", "p", "M">> }

\* Keyword arguments, as the set of their (name, value) pairs.
KwargsPool == {{}, {<<"foo", 1>>}, {<<"foo", 1>>, <<"bar", 2>>}}

LoadEngine(engine_name, base_path, kwargs) ==
    LET r == load_engine(modules, engine_name, base_path, kwargs)
    IN  /\ last' = Call("load_engine", <<engine_name, base_path, kwargs>>, r.exc,
                        [returned |-> r.value, made |-> r.made])
        /\ UNCHANGED <<fs, now, modules, images, history>>

LoadShipitEngine(engine_class, kwargs) ==
    LET r == load_shipit_engine(modules, engine_class, kwargs)
    IN  /\ last' = Call("load_shipit_engine", <<engine_class, kwargs>>, r.exc,
                        [returned |-> r.value, made |-> r.made])
        /\ UNCHANGED <<fs, now, modules, images, history>>

InitEngine ==
    /\ fs = <<>>
    /\ now = 0
    /\ modules \in Installations
    /\ images = <<>>
    /\ history = {}
    /\ last = NoCall

NextEngine ==
    \/ \E engine_name \in EngineNames, base_path \in EngineBasePaths, kwargs \in KwargsPool :
          LoadEngine(engine_name, base_path, kwargs)
    \/ \E engine_class \in ShipitNames, kwargs \in KwargsPool :
          LoadShipitEngine(engine_class, kwargs)

SpecEngine == InitEngine /\ [][NextEngine]_vars

----------------------------------------------------------------------------
(* Properties of the role scaffolder, under Spec.                           *)

Scaffolded == last.op = "create_role_from_templates" /\ ~Raised(last.exc)

ScaffoldedNext == last'.op = "create_role_from_templates" /\ ~Raised(last'.exc)

RoleFile(dir, name) == Join(IF dir = <<>> THEN RoleRoot ELSE Join(RoleRoot, dir), name)

\* The files the specification names as template destinations.
NamedTargets ==
    {RoleFile(<<>>, <<"README">>), RoleFile(<<>>, <<".", "travis", ".yml">>),
     RoleFile(<<"defaults">>, <<"main", ".yml">>), RoleFile(<<"meta">>, <<"main", ".yml">>),
     RoleFile(<<"test">>, <<"main", ".yml">>), RoleFile(<<"test">>, <<"test", ".yml">>),
     RoleFile(<<"test">>, <<".", "travis", ".yml">>)}

\* C1: a call of create_role_from_templates leaves every template destination
\* that exists when the call starts as it is, whatever the call's outcome, and
\* so does any number of calls.
C1_NeverOverwrites ==
    [][last'.op = "create_role_from_templates" =>
        \A d \in NamedTargets : Exists(fs, d) => Node(fs', d) = Node(fs, d)]_vars

\* A call for role db has returned and the README rendered for role web by an
\* earlier call is still there.
C1_Witness ==
    /\ Scaffolded /\ last.args[1] = "db"
    /\ Node(fs, RoleFile(<<>>, <<"README">>)).content
           = <<"role/", "README", ".j2", "web", "proj", "a role">>

BackupOf(t) == Join(TasksDir, <<"main_", ToString(t \div 2), ".yml">>)

\* C2: when a call returns, a tasks/main.yml that existed at its start is gone
\* and tasks/main_<stamp of the call>.yml holds its content; when there was no
\* tasks/main.yml, no file under tasks/ has changed.
C2_BacksUpTasksMain ==
    [][ScaffoldedNext =>
        IF Exists(fs, TasksMain)
        THEN ~Exists(fs', TasksMain) /\ Node(fs', BackupOf(now)) = Node(fs, TasksMain)
        ELSE \A p \in {TasksMain} \cup Backups : Node(fs', p) = Node(fs, p)]_vars

\* A call has returned at second 1, and the tasks file it found is the backup of
\* that second, next to the backup of second 0.
C2_Witness ==
    /\ Scaffolded /\ now \div 2 = 1 /\ ~Exists(fs, TasksMain)
    /\ Node(fs, BackupOf(now)).content = <<"tasks v2">>
    /\ Node(fs, BackupOf(0)).content = <<"tasks v1">>

\* C3: every content tasks/main.yml had at the start of a call that returned is
\* the content of some backup file under tasks/.
C3_HistoryKept ==
    \A text \in history : \E b \in Backups : IsFile(fs, b) /\ Node(fs, b).content = text

Fresh(f) == ~Exists(f, RoleRoot) \/ (IsDir(f, RoleRoot) /\ Children(f, RoleRoot) = {})

Layout(f) == {<<p, Node(f, p).type>> : p \in {q \in DOMAIN f : Exists(f, q)}}

LayoutWith(test_file) ==
    {<<RoleRoot, "dir">>,
     <<RoleFile(<<>>, <<"README">>), "file">>,
     <<RoleFile(<<>>, <<".", "travis", ".yml">>), "file">>,
     <<RoleFile(<<>>, <<"defaults">>), "dir">>,
     <<RoleFile(<<"defaults">>, <<"main", ".yml">>), "file">>,
     <<RoleFile(<<>>, <<"meta">>), "dir">>,
     <<RoleFile(<<"meta">>, <<"main", ".yml">>), "file">>,
     <<RoleFile(<<>>, <<"test">>), "dir">>,
     <<RoleFile(<<"test">>, test_file), "file">>,
     <<RoleFile(<<"test">>, <<".", "travis", ".yml">>), "file">>,
     <<RoleFile(<<>>, <<"tasks">>), "dir">>}

\* C4 as claimed: a call on a missing or empty role_path that returns leaves
\* exactly README, .travis.yml, defaults/main.yml, meta/main.yml, test/main.yml,
\* test/.travis.yml and an empty tasks/.
C4_FreshLayoutClaimed ==
    [][ScaffoldedNext /\ Fresh(fs) => Layout(fs') = LayoutWith(<<"main", ".yml">>)]_vars

\* C4 as amended: the same layout, with test/test.yml in the place of
\* test/main.yml.
C4_FreshLayout ==
    [][ScaffoldedNext /\ Fresh(fs) => Layout(fs') = LayoutWith(<<"test", ".yml">>)]_vars

\* The first call on a role directory has returned: every file is the one it
\* rendered and nothing was backed up.
C4_Witness ==
    /\ Scaffolded /\ history = {}
    /\ Layout(fs) = LayoutWith(<<"test", ".yml">>)
    /\ \A d \in NamedTargets : Exists(fs, d) => InList(last.args[1], Node(fs, d).content)

----------------------------------------------------------------------------
(* Properties of the path utilities, under SpecPath.                        *)

\* C8: create_path returns normally only when the path existed or was created,
\* so after it has returned normally the path exists.
C8_ReturnMeansExists ==
    (last.op = "create_path" /\ ~Raised(last.exc)) => Exists(fs, last.args[1])

Initialized(f) ==
    /\ f[ProjectRoot].type \in {"dir", "rodir"}
    /\ f[AnsibleDir].type \in {"dir", "rodir"}
    /\ f[ContainerFile].type = "file"
    /\ f[MainFile].type = "file"

\* C9: assert_initialized raises the not-initialized error exactly when ansible/
\* is not a directory or container.yml or main.yml is not a regular file, and it
\* leaves the filesystem as it was.
C9_RaisesIffNotInitialized ==
    [][last'.op = "assert_initialized" =>
        /\ fs' = fs
        /\ (last'.exc = Raise("AnsibleContainerNotInitializedException", <<>>)) <=> ~Initialized(fs)
        /\ last'.exc.type \in {"NoExc", "AnsibleContainerNotInitializedException"}]_vars

\* assert_initialized has raised on a project whose main.yml is a directory.
C9_Witness ==
    /\ last.op = "assert_initialized" /\ Raised(last.exc)
    /\ IsDir(fs, AnsibleDir) /\ IsFile(fs, ContainerFile) /\ IsDir(fs, MainFile)

----------------------------------------------------------------------------
(* Properties of the image lookup, under SpecImage.                         *)

LatestTag == <<"proj", "-", "host", ":", "latest">>

\* The descriptors that carry the tag proj-host:latest.
Tagged == {i \in 1..Len(images) : \E k \in 1..Len(images[i].RepoTags) : images[i].RepoTags[k] = LatestTag}

Looked == last.op = "get_latest_image_for"

\* The text of a tag after its last ':'.
TagPart(tag) ==
    LET colons == {i \in 1..Len(tag) : tag[i] = ":"}
        from == IF colons = {} THEN 0 ELSE CHOOSE i \in colons : \A j \in colons : j <= i
    IN  [k \in 1..(Len(tag) - from) |-> tag[from + k]]

\* C6: with no descriptor or more than one tagged proj-host:latest the call
\* returns (None, None) and raises nothing.
C6_NoneUnlessOneMatch ==
    (Looked /\ Cardinality(Tagged) # 1) => (~Raised(last.exc) /\ last.value = <<None, None>>)

\* Two images are tagged latest, each with a build stamp, and the call has
\* returned (None, None).
C6_Witness ==
    /\ Looked /\ Cardinality(Tagged) = 2 /\ last.value = <<None, None>>
    /\ \A i \in Tagged : Len(images[i].RepoTags) = 2

\* C7 as claimed: with exactly one descriptor tagged proj-host:latest the call
\* returns its Id and the tag part of one of its tags other than the latest tag.
C7_IdAndStampClaimed ==
    (Looked /\ Cardinality(Tagged) = 1) =>
        LET d == images[CHOOSE i \in Tagged : TRUE]
        IN  /\ ~Raised(last.exc)
            /\ last.value[1] = d.Id
            /\ \E k \in 1..Len(d.RepoTags) :
                  d.RepoTags[k] # LatestTag /\ last.value[2] = TagPart(d.RepoTags[k])

\* C7 as amended: the stamp is the tag part of the first tag of that descriptor
\* that does not end in ':latest', and without such a tag the call returns
\* (None, None).
C7_IdAndStamp ==
    (Looked /\ Cardinality(Tagged) = 1) =>
        LET d == images[CHOOSE i \in Tagged : TRUE]
            stamped == {k \in 1..Len(d.RepoTags) :
                           d.RepoTags[k][Len(d.RepoTags[k])] # "latest"
                           \/ d.RepoTags[k][Len(d.RepoTags[k]) - 1] # ":"}
        IN  /\ ~Raised(last.exc)
            /\ IF stamped = {} THEN last.value = <<None, None>>
               ELSE LET k == CHOOSE k \in stamped : \A j \in stamped : k <= j
                    IN  last.value = <<d.Id, TagPart(d.RepoTags[k])>>

\* The example of the specification: tags proj-host:latest and proj-host:abc123
\* on the one image sha1 give (sha1, abc123).
C7_Witness ==
    /\ Looked
    /\ images = << [Id |-> <<"sha", "1">>,
                    RepoTags |-> <<LatestTag, <<"proj", "-", "host", ":", "abc123">> >>] >>
    /\ last.value = << <<"sha", "1">>, <<"abc123">> >>

----------------------------------------------------------------------------
(* Properties of the plugin loaders, under SpecEngine.                      *)

\* The pieces of a path between its separators.
RECURSIVE Segments(_)
Segments(p) ==
    IF p = <<>> THEN << <<>> >>
    ELSE LET init == Segments(Front(p))
         IN  IF Last(p) = "/" THEN Append(init, <<>>)
             ELSE [init EXCEPT ![Len(init)] = Append(@, Last(p))]

Contains(s, part) == \E i \in 0..(Len(s) - Len(part)) : SubSeq(s, i + 1, i + Len(part)) = part

\* C10: when container.<engine_name>.engine is installed with an Engine class,
\* load_engine constructs Engine once, with base_path, the lower-cased last
\* segment of base_path and the keyword arguments as one mapping, and returns
\* that object; when the module is not installed the ImportError of the import
\* reaches the caller and nothing is constructed.
C10_LoadEngine ==
    last.op = "load_engine" =>
        LET name == <<"container.", last.args[1], ".engine">>
            segment == Last(Segments(last.args[2]))
            lowered == [i \in 1..Len(segment) |->
                           IF segment[i] = "M" THEN "m" ELSE IF segment[i] = "P" THEN "p"
                           ELSE segment[i]]
            engine == [cls |-> <<"container.", last.args[1], ".engine", "Engine">>,
                       args |-> <<last.args[2], lowered, last.args[3]>>, kwargs |-> {}]
        IN  /\ (name \in DOMAIN modules /\ "Engine" \in modules[name]) =>
                  /\ ~Raised(last.exc)
                  /\ last.value.made = <<engine>>
                  /\ last.value.returned = engine
            /\ name \notin DOMAIN modules =>
                  /\ last.exc = Raise("ImportError", <<"No module named ">> \o name)
                  /\ last.value.made = <<>>

\* load_engine('docker', '/Ma/pM', foo=1) on an installation with the docker
\* engine has returned Engine('/Ma/pM', 'pm', {'foo': 1}).
C10_Witness ==
    /\ last.op = "load_engine" /\ ~Raised(last.exc)
    /\ last.args[2] = <<"/", "M", "a", "/", "p", "M">>
    /\ last.args[3] = {<<"foo", 1>>}
    /\ last.value.returned.args = << <<"/", "M", "a", "/", "p", "M">>, <<"p", "m">>, {<<"foo", 1>>} >>

====
